---- MODULE Spec2Model ----
(***************************************************************************)
(* A model of the thread-safe ping class ThreadSafePing_t                  *)
(* (ThreadSafePing.h / ThreadSafePing.cpp: src/unnamed/part_002 and        *)
(* src/unnamed/part_001).                                                  *)
(*                                                                         *)
(* Every session (one ThreadSafePing_t object driven by one FreeRTOS task) *)
(* is a sequential process whose position in the code is pc[s].  The       *)
(* shared state is the static correlation table __pingReplies__, the       *)
(* process-wide LwIP mutex and the set of open LwIP sockets.               *)
(*                                                                         *)
(* Granularity.  A step is at most one access to shared state that         *)
(* another task can race with, together with the task-local code around    *)
(* it.  A network call under the mutex is two steps: taking the mutex      *)
(* (the call is entered) and the call's return with xSemaphoreGive.        *)
(* The comparison of a foreign slot's seqno and the write of its           *)
(* elapsed_time (part_001 lines 404 and 406) are two steps.                *)
(*                                                                         *)
(* Time.  millis()/micros() are not counted.  expired[s] says that the     *)
(* deadline of the loop the session is in has passed: the timeout of the   *)
(* poll in __ping_recv__ (micros () - startMicros >= timeoutMicros) or the *)
(* interval of the wait loop in ping (millis () - sendMillis >= 1000L *    *)
(* interval).  The environment action Tick sets it; once set it stays set  *)
(* until the session records a new start instant.  The arguments interval *)
(* and timeout therefore matter to validation only.                        *)
(*                                                                         *)
(* Floating point.  The round-trip times are kept as exact fractions       *)
(* [n, d] in lowest terms; rounding of float is not modelled.              *)
(***************************************************************************)
EXTENDS Integers, Sequences, FiniteSets, TLC

(***************************************************************************)
(* Bounds of the model                                                     *)
(***************************************************************************)

\* echoes one run may send in the specifications Spec and SpecSolo
MaxSent == 2

\* echoes the specification SpecWrap follows a run for
WrapLen == 4

\* largest round-trip time, in microseconds, a received packet can yield
MaxElapsed == 2

\* the first LwIP socket number, LWIP_SOCKET_OFFSET of the LwIP build
LWIP_SOCKET_OFFSET == 1

\* the number of LwIP sockets and of correlation slots, MEMP_NUM_NETCONN
MEMP_NUM_NETCONN == 2

\* the sessions (tasks) of the model
Sessions == {1, 2}

(***************************************************************************)
(* Program constants                                                       *)
(***************************************************************************)

ICMP_ER == 0
ICMP_ECHO == 8
ICMP6_ECHO_REQUEST == 128
ICMP6_ECHO_REPLY == 129

\* uint16_t seqno: the loop counter of ping and the slot's seqno
SEQNO_MOD == 65536

\* sizeof (struct icmp_echo_hdr) and sizeof (struct icmp6_echo_hdr)
ECHO_HDR_LEN == 8

\* sizeof (unsigned long) on the ESP32
ULONG_LEN == 4

\* the fixed IPv6 header length __ping_recv__ skips
IPV6_HDR_LEN == 40

\* IPH_HL (iphdr) * 4 of a received IPv4 packet without options
IPV4_HDR_LEN == 20

\* __min_time__ = 1e9: the "no data" sentinel
MIN_TIME_SENTINEL == 1000000000

NULL == "NULL"

(***************************************************************************)
(* Exact fractions for the float statistics                                *)
(***************************************************************************)

Abs(x) == IF x < 0 THEN -x ELSE x

RECURSIVE Gcd(_, _)
Gcd(a, b) == IF b = 0 THEN a ELSE Gcd(b, a % b)

Rat(n, d) ==
    LET g == Gcd(Abs(n), Abs(d))
        sgn == IF d < 0 THEN -1 ELSE 1
    IN  [n |-> sgn * (n \div g), d |-> sgn * (d \div g)]

RatInt(k) == [n |-> k, d |-> 1]
\* Sums and products divide by common factors before they multiply, to
\* keep the numbers within TLC's integers.
RatAdd(x, y) ==
    LET g == Gcd(x.d, y.d)
    IN  Rat(x.n * (y.d \div g) + y.n * (x.d \div g), (x.d \div g) * y.d)
RatSub(x, y) == RatAdd(x, [n |-> - y.n, d |-> y.d])
RatMul(x, y) ==
    LET g == Gcd(Abs(x.n), y.d)
        h == Gcd(Abs(y.n), x.d)
    IN  Rat((x.n \div g) * (y.n \div h), (x.d \div h) * (y.d \div g))
RatDivInt(x, k) == Rat(x.n, x.d * k)
\* x < y, comparing the integer parts first: the sentinel 1e9 times a
\* denominator is beyond TLC's integers
RatLess(x, y) ==
    LET qx == x.n \div x.d
        qy == y.n \div y.d
    IN  IF qx # qy THEN qx < qy
        ELSE (x.n - qx * x.d) * y.d < (y.n - qy * y.d) * x.d


(***************************************************************************)
(* State                                                                   *)
(***************************************************************************)

VARIABLES
    pc,             \* where the task of each session is in the code
    op,             \* the public operation the task is executing
    args,           \* count, interval, size, timeout of the call in progress
    ret,            \* what the last call of a ping overload returned
    errText,        \* __errText__
    isIPv6,         \* __isIPv6__
    pingTargetIp,   \* __pingTargetIp__
    size,           \* __size__
    sent,           \* __sent__
    received,       \* __received__
    lost,           \* __lost__
    stopped,        \* __stopped__
    elapsed_time,   \* __elapsed_time__
    min_time,       \* __min_time__
    max_time,       \* __max_time__
    mean_time,      \* __mean_time__
    var_time,       \* __var_time__
    last_mean_time, \* __last_mean_time__
    count,          \* the argument count of the run in progress
    seqno,          \* the loop counter of ping, a uint16_t
    sockfd,         \* the socket of the run, -1 before socket () returned one
    bytesReceived,  \* the local bytesReceived of ping as <<value>>, written
                    \* by __ping_recv__; <<>> while it is uninitialized
    pend,           \* id and elapsed time of a foreign reply between the
                    \* comparison of the slot's seqno and the write
    expired,        \* the deadline of the current poll or wait has passed
    onWaitCalled,   \* onWait () was invoked since the last send
    onReceiveCalls, \* history: the invocations of onReceive () in the run
    pingReplies,    \* __pingReplies__ [MEMP_NUM_NETCONN]
    mutex,          \* the tasks holding getLwIpMutex (): none or one
    openSockets,    \* the LwIP sockets that are open
    replySeen,      \* history: since the slot was last reset, a reply with
                    \* the slot's identifier and its expected seqno was dequeued
    replySeenInPoll \* history: since the slot was last reset, another
                    \* session dequeued such a reply while the session of
                    \* the slot was polling

vars == <<pc, op, args, ret, errText, isIPv6, pingTargetIp, size, sent,
          received, lost, stopped, elapsed_time, min_time, max_time,
          mean_time, var_time, last_mean_time, count, seqno, sockfd,
          bytesReceived, pend, expired, onWaitCalled, onReceiveCalls,
          pingReplies, mutex,
          openSockets, replySeen, replySeenInPoll>>

\* the fields initialize measuring variables writes (part_001 138-144)
measuringVars == <<size, sent, received, lost, elapsed_time, min_time,
                   max_time, mean_time, var_time, last_mean_time>>

\* the target a session is bound to
targetVars == <<isIPv6, pingTargetIp>>

\* the locals of a run
runVars == <<count, seqno, sockfd, bytesReceived, pend, expired,
             onWaitCalled, onReceiveCalls>>

\* the state shared by the sessions
sharedVars == <<pingReplies, mutex, openSockets, replySeen, replySeenInPoll>>

NoArgs == [count |-> 0, interval |-> 0, size |-> 0, timeout |-> 0]
NoPend == [id |-> -1, elapsed |-> 0]
Uninit == <<>>

Slots == 0 .. (MEMP_NUM_NETCONN - 1)

\* the texts of the targets: a host name, and the canonical texts inet_ntop
\* writes for its IPv4 and IPv6 address
HostName == "arduino.com"
TextIPv4 == "10.0.0.1"
TextIPv6 == "fe80::1"

(***************************************************************************)
(* Arguments                                                               *)
(***************************************************************************)

\* PING_DEFAULT_INTERVAL, PING_DEFAULT_SIZE, PING_DEFAULT_TIMEOUT
PING_DEFAULT_INTERVAL == 1
PING_DEFAULT_SIZE == 32
PING_DEFAULT_TIMEOUT == 1

DefaultArgs(c) ==
    [count |-> c, interval |-> PING_DEFAULT_INTERVAL,
     size |-> PING_DEFAULT_SIZE, timeout |-> PING_DEFAULT_TIMEOUT]

\* The calls of the single-session specification: every count from -1 to
\* MaxSent with the default arguments, and count 1 with each of interval,
\* size and timeout at, and one beyond, both ends of its range.
ArgsSolo ==
    {DefaultArgs(c) : c \in -1 .. MaxSent}
    \cup {[DefaultArgs(1) EXCEPT !.interval = i] : i \in {0, 1, 3600, 3601}}
    \cup {[DefaultArgs(1) EXCEPT !.size = z] : z \in {3, 4, 256, 257}}
    \cup {[DefaultArgs(1) EXCEPT !.timeout = t] : t \in {0, 1, 30, 31}}
    \cup {[count |-> -1, interval |-> 0, size |-> 3, timeout |-> 0]}

\* The calls of the two-session specification
ArgsDuo == {DefaultArgs(MaxSent)}

\* A faulty variant of CheckArgs: the largest size is refused.
CheckArgsStrict(a) ==
    IF a.count < 0 THEN "invalid value"
    ELSE IF a.interval < 1 \/ a.interval > 3600 THEN "invalid value"
    ELSE IF a.size < 4 \/ a.size >= 256 THEN "invalid value"
    ELSE IF a.timeout < 1 \/ a.timeout > 30 THEN "invalid value"
    ELSE NULL

\* check argument values (part_001 132-135): the error text, or NULL
CheckArgs(a) ==
    IF a.count < 0 THEN "invalid value"
    ELSE IF a.interval < 1 \/ a.interval > 3600 THEN "invalid value"
    ELSE IF a.size < 4 \/ a.size > 256 THEN "invalid value"
    ELSE IF a.timeout < 1 \/ a.timeout > 30 THEN "invalid value"
    ELSE NULL

\* gai_strerror (part_001 29-41), on the names of the codes
gai_strerror(err) ==
    CASE err = "EAI_AGAIN" -> "temporary failure in name resolution"
      [] err = "EAI_BADFLAGS" -> "invalid value for ai_flags field"
      [] err = "EAI_FAIL" -> "non-recoverable failure in name resolution"
      [] err = "EAI_FAMILY" -> "ai_family not supported"
      [] err = "EAI_MEMORY" -> "memory allocation failure"
      [] err = "EAI_NONAME" -> "name or service not known"
      [] err = "EAI_SERVICE" -> "service not supported for ai_socktype"
      [] err = "EAI_SOCKTYPE" -> "ai_socktype not supported"
      [] OTHER -> "invalid gai_errno code"

\* the errors getaddrinfo reports in the model
GaiErrors == {"EAI_NONAME", "EAI_OTHER"}


(***************************************************************************)
(* The correlation table and the packets                                   *)
(***************************************************************************)

\* A faulty variant of SlotOf: the socket number itself is the index.
SlotOfHandle(id) == id

\* the slot of a socket or of a packet's identifier: id - LWIP_SOCKET_OFFSET
SlotOf(id) == id - LWIP_SOCKET_OFFSET

\* "check if this is a reply we expected" (part_001 388), negated: the
\* identifier designates a slot and the type is an echo reply
Accepted(id, type) ==
    ~ (id < LWIP_SOCKET_OFFSET
       \/ id >= LWIP_SOCKET_OFFSET + MEMP_NUM_NETCONN
       \/ ~ (type = ICMP_ER \/ type = ICMP6_ECHO_REPLY))

\* A faulty variant of TargetSlot: the session records every reply it
\* dequeues in its own slot.
TargetSlotOwn(fd, id) == SlotOf(fd)

\* the slot __ping_recv__ compares and writes for a reply carrying id that
\* the session of socket fd dequeued (part_001 394-409): its own slot when
\* id == sockfd, the slot of id otherwise
TargetSlot(fd, id) == IF id = fd THEN SlotOf(fd) ELSE SlotOf(id)

\* the least number of bytes __ping_recv__ parses (part_001 354, 372)
MinBytes(v6) ==
    IF v6 THEN IPV6_HDR_LEN + ECHO_HDR_LEN + ULONG_LEN
    ELSE IPV4_HDR_LEN + ECHO_HDR_LEN + ULONG_LEN

\* *bytes after the headers are subtracted (part_001 366, 384)
PayloadBytes(v6, len) ==
    IF v6 THEN len - (IPV6_HDR_LEN + ECHO_HDR_LEN)
    ELSE len - (IPV4_HDR_LEN + ECHO_HDR_LEN)

\* the lengths recvfrom reports: too short for either family, and long
\* enough for both
ShortLen == 20
FullLen == 60

\* The echo replies recvfrom can deliver: of either family, carrying one
\* of the identifiers ids and one of the sequence numbers seqs.  elapsed,
\* one of els, is micros () - sentMicros as the receiver computes it.
Replies(ids, seqs, els) ==
    [type : {ICMP_ER, ICMP6_ECHO_REPLY}, id : ids, seqno : seqs,
     elapsed : els, len : {FullLen}]

\* The other packets a raw ICMP socket sees: a packet that is too short, an
\* echo request of either family, and replies whose identifier is below
\* and above the socket numbers.
Strays ==
    [type : {ICMP_ER}, id : {LWIP_SOCKET_OFFSET}, seqno : {1},
     elapsed : {1}, len : {ShortLen}]
    \cup
    [type : {ICMP_ECHO, ICMP6_ECHO_REQUEST}, id : {LWIP_SOCKET_OFFSET},
     seqno : {1}, elapsed : {1}, len : {FullLen}]
    \cup
    [type : {ICMP_ER},
     id : {LWIP_SOCKET_OFFSET - 1, LWIP_SOCKET_OFFSET + MEMP_NUM_NETCONN},
     seqno : {1}, elapsed : {1}, len : {FullLen}]

\* the identifiers that designate a slot
SocketIds == LWIP_SOCKET_OFFSET .. (LWIP_SOCKET_OFFSET + MEMP_NUM_NETCONN - 1)

(***************************************************************************)
(* The initial states                                                      *)
(***************************************************************************)

\* A session whose constructor has not run.  The measuring variables and
\* __stopped__ have no initializer (part_002 73-84): the fields hold what
\* the memory held, g in the numbers and b in the flag.
FieldsInit(S, garbage, flags) ==
    \E g \in [Sessions -> garbage], b \in [Sessions -> flags] :
        /\ \A s \in Sessions \ S : g[s] = 0 /\ b[s] = FALSE
        /\ size = g
        /\ sent = g
        /\ received = g
        /\ lost = g
        /\ stopped = b
        /\ elapsed_time = [s \in Sessions |-> RatInt(g[s])]
        /\ min_time = [s \in Sessions |-> RatInt(g[s])]
        /\ max_time = [s \in Sessions |-> RatInt(g[s])]
        /\ mean_time = [s \in Sessions |-> RatInt(g[s])]
        /\ var_time = [s \in Sessions |-> RatInt(g[s])]
        /\ last_mean_time = [s \in Sessions |-> RatInt(g[s])]

NoCallInit ==
    /\ op = [s \in Sessions |-> "none"]
    /\ args = [s \in Sessions |-> NoArgs]
    /\ ret = [s \in Sessions |-> NULL]
    /\ count = [s \in Sessions |-> 0]
    /\ seqno = [s \in Sessions |-> 0]
    /\ sockfd = [s \in Sessions |-> -1]
    /\ bytesReceived = [s \in Sessions |-> Uninit]
    /\ pend = [s \in Sessions |-> NoPend]
    /\ expired = [s \in Sessions |-> FALSE]
    /\ onWaitCalled = [s \in Sessions |-> FALSE]
    /\ onReceiveCalls = [s \in Sessions |-> 0]

\* __pingReplies__ [MEMP_NUM_NETCONN] = {} (part_001 45), a free mutex and
\* no open socket
SharedInit ==
    /\ pingReplies = [i \in Slots |-> [seqno |-> 0, elapsed_time |-> 0]]
    /\ mutex = {}
    /\ openSockets = {}
    /\ replySeen = [i \in Slots |-> FALSE]
    /\ replySeenInPoll = [i \in Slots |-> FALSE]


(***************************************************************************)
(* Constructors and __resolveTargetName__                                  *)
(***************************************************************************)

Set(f, s, v) == [f EXCEPT ![s] = v]

\* ThreadSafePing_t () {} (part_002 100)
Construct(s) ==
    /\ pc[s] = "new"
    /\ pc' = Set(pc, s, "idle")
    /\ UNCHANGED <<op, args, ret, errText, stopped>>
    /\ UNCHANGED <<targetVars, measuringVars, runVars, sharedVars>>

\* ThreadSafePing_t (const char *pingTarget) (part_001 48-50)
ConstructName(s) ==
    /\ pc[s] = "new"
    /\ pc' = Set(pc, s, "resolve")
    /\ op' = Set(op, s, "ctor")
    /\ UNCHANGED <<args, ret, errText, stopped>>
    /\ UNCHANGED <<targetVars, measuringVars, runVars, sharedVars>>

\* A faulty variant of Give: the task goes on without releasing the mutex.
GiveNothing(s) == mutex' = mutex

\* xSemaphoreGive (getLwIpMutex ())
Give(s) == mutex' = mutex \ {s}

\* A faulty variant of Take: the task goes on without waiting for the
\* mutex to be free.
TakeAnyway(s) == mutex' = {s}

\* xSemaphoreTake (getLwIpMutex (), portMAX_DELAY): the task blocks until
\* the mutex is free and then holds it
Take(s) ==
    /\ mutex = {}
    /\ mutex' = {s}

\* __resolveTargetName__ returns e to its caller: a constructor stores it
\* in __errText__ (part_001 49, 55); ping (target, ...) stores it, returns
\* it when it is an error and calls ping (count, ...) otherwise (part_001
\* 111-114).  Sets pc, op, args, ret and errText.
ResolveReturn(s, e) ==
    /\ errText' = Set(errText, s, e)
    /\ IF op[s] = "ctor"
       THEN /\ pc' = Set(pc, s, "idle")
            /\ op' = Set(op, s, "none")
            /\ UNCHANGED <<args, ret>>
       ELSE IF e # NULL
       THEN /\ pc' = Set(pc, s, "done")
            /\ op' = Set(op, s, "none")
            /\ args' = Set(args, s, NoArgs)
            /\ ret' = Set(ret, s, e)
       ELSE /\ pc' = Set(pc, s, "ping")
            /\ UNCHANGED <<op, args, ret>>

\* part_001 60-68: the connectivity check (WiFi's state is read from the
\* environment), then xSemaphoreTake and the entry into getaddrinfo
Resolve(s) ==
    /\ pc[s] = "resolve"
    /\ \E connected \in BOOLEAN :
        IF ~ connected
        THEN /\ ResolveReturn(s, "not connected")
             /\ UNCHANGED mutex
        ELSE /\ Take(s)
             /\ pc' = Set(pc, s, "getaddrinfo")
             /\ UNCHANGED <<op, args, ret, errText>>
    /\ UNCHANGED <<stopped, targetVars, measuringVars, runVars>>
    /\ UNCHANGED <<pingReplies, openSockets, replySeen, replySeenInPoll>>

\* part_001 69-87: getaddrinfo returns, xSemaphoreGive; on success the
\* first result sets __isIPv6__ and __pingTargetIp__
GetAddrInfo(s) ==
    /\ pc[s] = "getaddrinfo"
    /\ Give(s)
    /\ \/ \E e \in GaiErrors :
            /\ ResolveReturn(s, gai_strerror(e))
            /\ UNCHANGED targetVars
       \/ \E v6 \in BOOLEAN :
            /\ isIPv6' = Set(isIPv6, s, v6)
            /\ pingTargetIp' = Set(pingTargetIp, s,
                                   IF v6 THEN TextIPv6 ELSE TextIPv4)
            /\ pc' = Set(pc, s, "freeaddrinfo_wait")
            /\ UNCHANGED <<op, args, ret, errText>>
    /\ UNCHANGED <<stopped, measuringVars, runVars>>
    /\ UNCHANGED <<pingReplies, openSockets, replySeen, replySeenInPoll>>

\* part_001 88: xSemaphoreTake before freeaddrinfo
FreeAddrInfoTake(s) ==
    /\ pc[s] = "freeaddrinfo_wait"
    /\ Take(s)
    /\ pc' = Set(pc, s, "freeaddrinfo")
    /\ UNCHANGED <<op, args, ret, errText, stopped>>
    /\ UNCHANGED <<targetVars, measuringVars, runVars>>
    /\ UNCHANGED <<pingReplies, openSockets, replySeen, replySeenInPoll>>

\* part_001 89-106: freeaddrinfo returns, xSemaphoreGive, then inet_pton
\* of __pingTargetIp__ succeeds or fails
FreeAddrInfo(s) ==
    /\ pc[s] = "freeaddrinfo"
    /\ Give(s)
    /\ \E ok \in BOOLEAN :
        ResolveReturn(s, IF ok THEN NULL ELSE "invalid network address")
    /\ UNCHANGED <<stopped, targetVars, measuringVars, runVars>>
    /\ UNCHANGED <<pingReplies, openSockets, replySeen, replySeenInPoll>>

(***************************************************************************)
(* The calls of ping                                                       *)
(***************************************************************************)

\* A task calls ping on its constructed session.  The model follows one
\* call of each session: the values an earlier call left in the measuring
\* variables are among those the fields start with.
Callable(s) == pc[s] = "idle"

\* the caller invokes ping (count, interval, size, timeout)
CallPing(s, A) ==
    /\ Callable(s)
    /\ \E a \in A : args' = Set(args, s, a)
    /\ op' = Set(op, s, "ping")
    /\ pc' = Set(pc, s, "ping")
    /\ ret' = Set(ret, s, NULL)
    /\ UNCHANGED <<errText, stopped>>
    /\ UNCHANGED <<targetVars, measuringVars, runVars, sharedVars>>

\* ping (const char *pingTarget, ...) is entered (part_001 110-111)
CallPingName(s, A) ==
    /\ Callable(s)
    /\ \E a \in A : args' = Set(args, s, a)
    /\ op' = Set(op, s, "pingName")
    /\ pc' = Set(pc, s, "resolve")
    /\ ret' = Set(ret, s, NULL)
    /\ UNCHANGED <<errText, stopped>>
    /\ UNCHANGED <<targetVars, measuringVars, runVars, sharedVars>>

\* stop () (part_002 122), called by any task at any time
Stop(s) ==
    /\ pc[s] # "new"
    /\ ~ stopped[s]
    /\ stopped' = Set(stopped, s, TRUE)
    /\ UNCHANGED <<pc, op, args, ret, errText>>
    /\ UNCHANGED <<targetVars, measuringVars, runVars, sharedVars>>


(***************************************************************************)
(* ping (int count, int interval, int size, int timeout)                   *)
(***************************************************************************)

\* the slot of the session's own socket
OwnSlot(s) == SlotOf(sockfd[s])

\* ping returns e.  The locals of the run end with it; the model keeps
\* count and sockfd, the number of the socket the run used.
\* Sets pc, op, ret, seqno, bytesReceived, expired, onWaitCalled and
\* onReceiveCalls.
PingReturn(s, e) ==
    /\ pc' = Set(pc, s, "done")
    /\ op' = Set(op, s, "none")
    /\ ret' = Set(ret, s, e)
    /\ seqno' = Set(seqno, s, 0)
    /\ bytesReceived' = Set(bytesReceived, s, Uninit)
    /\ expired' = Set(expired, s, FALSE)
    /\ onWaitCalled' = Set(onWaitCalled, s, FALSE)
    /\ UNCHANGED onReceiveCalls

\* A faulty variant of ResetCount: the counter keeps the value the earlier
\* run left.
ResetCountKeep(n) == n

\* part_001 139: __sent__ = __received__ = __lost__ = 0
ResetCount(n) == 0

\* part_001 128-144: the connectivity check, the check of the argument
\* values, and "initialize measuring variables"
PingValidate(s) ==
    /\ pc[s] = "ping"
    /\ args' = Set(args, s, NoArgs)
    /\ \E connected \in BOOLEAN :
        LET e == IF ~ connected THEN "not connected" ELSE CheckArgs(args[s])
        IN  IF e # NULL
            THEN /\ pc' = Set(pc, s, "done")
                 /\ op' = Set(op, s, "none")
                 /\ ret' = Set(ret, s, e)
                 /\ UNCHANGED <<stopped, measuringVars, runVars>>
            ELSE /\ size' = Set(size, s, args[s].size)
                 /\ sent' = Set(sent, s, ResetCount(sent[s]))
                 /\ received' = Set(received, s, ResetCount(received[s]))
                 /\ lost' = Set(lost, s, ResetCount(lost[s]))
                 /\ stopped' = Set(stopped, s, FALSE)
                 /\ min_time' = Set(min_time, s, RatInt(MIN_TIME_SENTINEL))
                 /\ max_time' = Set(max_time, s, RatInt(0))
                 /\ mean_time' = Set(mean_time, s, RatInt(0))
                 /\ var_time' = Set(var_time, s, RatInt(0))
                 /\ count' = Set(count, s, args[s].count)
                 /\ sockfd' = Set(sockfd, s, -1)
                 /\ pc' = Set(pc, s, "socket_wait")
                 /\ onReceiveCalls' = Set(onReceiveCalls, s, 0)
                 /\ UNCHANGED <<op, ret, elapsed_time, last_mean_time, seqno,
                                bytesReceived, pend, expired, onWaitCalled>>
    /\ UNCHANGED <<errText, targetVars, sharedVars>>

\* part_001 147: xSemaphoreTake before socket ()
SocketTake(s) ==
    /\ pc[s] = "socket_wait"
    /\ Take(s)
    /\ pc' = Set(pc, s, "socket")
    /\ UNCHANGED <<op, args, ret, errText, stopped>>
    /\ UNCHANGED <<targetVars, measuringVars, runVars>>
    /\ UNCHANGED <<pingReplies, openSockets, replySeen, replySeenInPoll>>

\* part_001 148-166: socket () fails; or it returns a free socket and fcntl
\* fails, which closes the socket; or both succeed and the loop starts
\* with seqno = 1.  xSemaphoreGive on each path.
Socket(s) ==
    /\ pc[s] = "socket"
    /\ Give(s)
    /\ \/ /\ errText' = Set(errText, s, "strerror (errno)")
          /\ PingReturn(s, "strerror (errno)")
          /\ UNCHANGED <<sockfd, openSockets>>
       \/ \E i \in Slots \ openSockets :
            /\ errText' = Set(errText, s, "strerror (errno)")
            /\ PingReturn(s, "strerror (errno)")
            /\ UNCHANGED <<sockfd, openSockets>>
       \/ \E i \in Slots \ openSockets :
            /\ openSockets' = openSockets \cup {i}
            /\ sockfd' = Set(sockfd, s, i + LWIP_SOCKET_OFFSET)
            /\ seqno' = Set(seqno, s, 1)
            /\ pc' = Set(pc, s, "for")
            /\ UNCHANGED <<op, ret, errText, bytesReceived, expired,
                           onWaitCalled, onReceiveCalls>>
    /\ UNCHANGED <<args, stopped, targetVars, measuringVars, count, pend>>
    /\ UNCHANGED <<pingReplies, replySeen, replySeenInPoll>>

\* A faulty variant of ForCond: the loop does not look at __stopped__.
ForCondNoStop(seq, cnt, stp) == seq <= cnt \/ cnt = 0

\* the condition of the for loop (part_001 166)
ForCond(seq, cnt, stp) == (seq <= cnt \/ cnt = 0) /\ ~ stp

\* A faulty variant of NextSeqno: the loop counter does not advance, and
\* the same echo is sent again.
NextSeqnoStuck(seq) == seq

\* seqno++ on a uint16_t
NextSeqno(seq) == (seq + 1) % SEQNO_MOD

\* part_001 166-167: the loop condition; the body starts, or the loop is
\* left for closesocket.  A run sends at most cap echoes in the model.
For(s, cap) ==
    /\ pc[s] = "for"
    /\ IF ForCond(seqno[s], count[s], stopped[s])
       THEN /\ sent[s] < cap
            /\ pc' = Set(pc, s, "send")
       ELSE pc' = Set(pc, s, "close_wait")
    /\ UNCHANGED <<op, args, ret, errText, stopped>>
    /\ UNCHANGED <<targetVars, measuringVars, runVars, sharedVars>>

\* __ping_send__, part_001 220-301: mem_malloc fails and ping returns "out
\* of memory" (part_001 169-171); or the session's slot is reset to
\* { seqno, 0 } and the packet is built.  An IPv6 session enters sendto at
\* once, an IPv4 session goes on to xSemaphoreTake.
Send(s) ==
    /\ pc[s] = "send"
    /\ \/ /\ errText' = Set(errText, s, "out of memory")
          /\ PingReturn(s, "out of memory")
          /\ UNCHANGED <<pingReplies, replySeen, replySeenInPoll>>
       \/ /\ pingReplies' = [pingReplies EXCEPT ![OwnSlot(s)] =
                                [seqno |-> seqno[s], elapsed_time |-> 0]]
          /\ replySeen' = [replySeen EXCEPT ![OwnSlot(s)] = FALSE]
          /\ replySeenInPoll' = [replySeenInPoll EXCEPT ![OwnSlot(s)] = FALSE]
          /\ pc' = Set(pc, s, IF isIPv6[s] THEN "sendto" ELSE "sendto_wait")
          /\ UNCHANGED <<op, ret, errText, seqno, bytesReceived, expired,
                         onWaitCalled, onReceiveCalls>>
    /\ UNCHANGED <<args, stopped, targetVars, measuringVars>>
    /\ UNCHANGED <<count, sockfd, pend, mutex, openSockets>>

\* part_001 304: xSemaphoreTake before the IPv4 sendto
SendToTake(s) ==
    /\ pc[s] = "sendto_wait"
    /\ Take(s)
    /\ pc' = Set(pc, s, "sendto")
    /\ UNCHANGED <<op, args, ret, errText, stopped>>
    /\ UNCHANGED <<targetVars, measuringVars, runVars>>
    /\ UNCHANGED <<pingReplies, openSockets, replySeen, replySeenInPoll>>

\* A faulty variant of SentAfterSend: the echo is counted before the result
\* of __ping_send__ is looked at.
SentAfterSendAlways(n, e) == n + 1

\* __sent__ after __ping_send__ returned e (part_001 169-173): an error
\* returns from ping before __sent__++
SentAfterSend(n, e) == IF e # NULL THEN n ELSE n + 1

\* part_001 260, 305-314 and 169-176: sendto returns (the IPv4 branch then
\* gives the mutex).  sent != ping_size: ping returns "couldn't sendto".
\* Otherwise __sent__++ and __ping_recv__ is entered: startMicros is taken.
SendTo(s) ==
    /\ pc[s] = "sendto"
    /\ IF isIPv6[s] THEN UNCHANGED mutex ELSE Give(s)
    /\ \/ /\ errText' = Set(errText, s, "couldn't sendto")
          /\ PingReturn(s, "couldn't sendto")
       \/ /\ errText' = Set(errText, s, NULL)
          /\ bytesReceived' = Set(bytesReceived, s, Uninit)
          /\ expired' = Set(expired, s, FALSE)
          /\ pc' = Set(pc, s, "recv")
          /\ UNCHANGED <<op, ret, seqno, onWaitCalled, onReceiveCalls>>
    /\ sent' = Set(sent, s, SentAfterSend(sent[s], errText'[s]))
    /\ UNCHANGED <<args, stopped, targetVars, count, sockfd, pend>>
    /\ UNCHANGED <<size, received, lost, elapsed_time, min_time, max_time,
                   mean_time, var_time, last_mean_time>>
    /\ UNCHANGED <<pingReplies, openSockets, replySeen, replySeenInPoll>>


(***************************************************************************)
(* __ping_recv__                                                           *)
(***************************************************************************)

\* part_001 328-335, the head of the poll loop: the session's slot has an
\* elapsed time and __ping_recv__ returns; or it has none and the session
\* takes the mutex and enters recvfrom
Recv(s) ==
    /\ pc[s] = "recv"
    /\ IF pingReplies[OwnSlot(s)].elapsed_time # 0
       THEN /\ pc' = Set(pc, s, "stats")
            /\ UNCHANGED mutex
       ELSE /\ Take(s)
            /\ pc' = Set(pc, s, "recvfrom")
    /\ UNCHANGED <<op, args, ret, errText, stopped>>
    /\ UNCHANGED <<targetVars, measuringVars, runVars>>
    /\ UNCHANGED <<pingReplies, openSockets, replySeen, replySeenInPoll>>

\* part_001 339-345: recvfrom reports nothing to read (EAGAIN or ENAVAIL):
\* before the timeout the session sleeps and polls again, after it
\* __ping_recv__ returns "timeout"
RecvWouldBlock(s) ==
    /\ bytesReceived' = Set(bytesReceived, s, <<-1>>)
    /\ pc' = Set(pc, s, IF ~ expired[s] THEN "recv" ELSE "stats")
    /\ UNCHANGED <<pend, pingReplies, replySeen, replySeenInPoll>>

\* part_001 339-344: recvfrom fails with another errno
RecvError(s) ==
    /\ bytesReceived' = Set(bytesReceived, s, <<-1>>)
    /\ pc' = Set(pc, s, "stats")
    /\ UNCHANGED <<pend, pingReplies, replySeen, replySeenInPoll>>

\* a session whose socket is id is inside the loop of __ping_recv__
\* (part_001 328-410)
Polling(id) ==
    \E b \in Sessions :
        /\ sockfd[b] = id
        /\ pc[b] \in {"recv", "recvfrom", "recv_write"}

\* A faulty variant of SeqMatches: every reply is taken for the latest.
SeqMatchesAny(expected, seq) == TRUE

\* "did we pick up the echo packet with the latest sequence number?"
\* (part_001 396, 404)
SeqMatches(expected, seq) == expected = seq

\* part_001 347-409: recvfrom delivers the packet p
RecvPacket(s, p) ==
    LET i == TargetSlot(sockfd[s], p.id) IN
    IF p.len < MinBytes(isIPv6[s])
    THEN \* too short: continue
         /\ bytesReceived' = Set(bytesReceived, s, <<p.len>>)
         /\ pc' = Set(pc, s, "recv")
         /\ UNCHANGED <<pend, pingReplies, replySeen, replySeenInPoll>>
    ELSE /\ bytesReceived' =
                Set(bytesReceived, s, <<PayloadBytes(isIPv6[s], p.len)>>)
         /\ IF ~ Accepted(p.id, p.type)
            THEN \* not a reply we expected: continue
                 /\ pc' = Set(pc, s, "recv")
                 /\ UNCHANGED <<pend, pingReplies, replySeen, replySeenInPoll>>
            ELSE IF ~ SeqMatches(pingReplies[i].seqno, p.seqno)
            THEN \* the sequence numbers do not match: ignore the packet
                 /\ pc' = Set(pc, s, "recv")
                 /\ UNCHANGED <<pend, pingReplies, replySeen, replySeenInPoll>>
            ELSE IF p.id = sockfd[s]
            THEN \* our own reply: write the slot, return
                 /\ pingReplies' = [pingReplies EXCEPT
                                       ![i].elapsed_time = p.elapsed]
                 /\ replySeen' = [replySeen EXCEPT ![i] = TRUE]
                 /\ pc' = Set(pc, s, "stats")
                 /\ UNCHANGED <<pend, replySeenInPoll>>
            ELSE \* the reply of another socket: its slot is written next
                 /\ pend' = Set(pend, s, [id |-> p.id, elapsed |-> p.elapsed])
                 /\ replySeen' = [replySeen EXCEPT ![i] = TRUE]
                 /\ replySeenInPoll' =
                       [replySeenInPoll EXCEPT ![i] = @ \/ Polling(p.id)]
                 /\ pc' = Set(pc, s, "recv_write")
                 /\ UNCHANGED pingReplies

\* part_001 336-409: recvfrom returns, xSemaphoreGive, and the rest of the
\* loop body up to the write of a foreign slot
RecvFrom(s, P) ==
    /\ pc[s] = "recvfrom"
    /\ Give(s)
    /\ \/ RecvWouldBlock(s)
       \/ RecvError(s)
       \/ \E p \in P : RecvPacket(s, p)
    /\ UNCHANGED <<op, args, ret, errText, stopped>>
    /\ UNCHANGED <<targetVars, measuringVars>>
    /\ UNCHANGED <<count, seqno, sockfd, expired, onWaitCalled,
                   onReceiveCalls, openSockets>>

\* part_001 406: the write of the elapsed time into the slot of the other
\* socket, after which the session goes on polling
RecvWrite(s) ==
    /\ pc[s] = "recv_write"
    /\ pingReplies' = [pingReplies EXCEPT
          ![TargetSlot(sockfd[s], pend[s].id)].elapsed_time = pend[s].elapsed]
    /\ pend' = Set(pend, s, NoPend)
    /\ pc' = Set(pc, s, "recv")
    /\ UNCHANGED <<op, args, ret, errText, stopped>>
    /\ UNCHANGED <<targetVars, measuringVars>>
    /\ UNCHANGED <<count, seqno, sockfd, bytesReceived, expired, onWaitCalled,
                   onReceiveCalls>>
    /\ UNCHANGED <<mutex, openSockets, replySeen, replySeenInPoll>>

\* time passes: the deadline of the poll or of the wait is reached
Tick(s) ==
    /\ pc[s] \in {"recv", "recvfrom", "recv_write", "wait"}
    /\ ~ expired[s]
    /\ expired' = Set(expired, s, TRUE)
    /\ UNCHANGED <<pc, op, args, ret, errText, stopped>>
    /\ UNCHANGED <<targetVars, measuringVars, sharedVars>>
    /\ UNCHANGED <<count, seqno, sockfd, bytesReceived, pend, onWaitCalled,
                   onReceiveCalls>>

(***************************************************************************)
(* The rest of the loop body of ping                                       *)
(***************************************************************************)

\* A faulty variant of MinAfter: the minimum is the latest elapsed time.
MinAfterLatest(t, m) == t

\* part_001 183: if (__elapsed_time__ < __min_time__) __min_time__ =
\* __elapsed_time__
MinAfter(t, m) == IF RatLess(t, m) THEN t ELSE m

\* part_001 178-195: "Update statistics" from the session's slot
Stats(s) ==
    LET e == pingReplies[OwnSlot(s)].elapsed_time
        t == Rat(e, 1000)
        n == received[s] + 1
        mean == RatDivInt(RatAdd(RatMul(RatInt(n - 1), mean_time[s]), t), n)
    IN
    /\ pc[s] = "stats"
    /\ pc' = Set(pc, s, "hook")
    /\ IF e # 0
       THEN /\ received' = Set(received, s, n)
            /\ elapsed_time' = Set(elapsed_time, s, t)
            /\ min_time' = Set(min_time, s, MinAfter(t, min_time[s]))
            /\ max_time' = Set(max_time, s,
                  IF RatLess(max_time[s], t) THEN t ELSE max_time[s])
            /\ last_mean_time' = Set(last_mean_time, s, mean_time[s])
            /\ mean_time' = Set(mean_time, s, mean)
            /\ var_time' = Set(var_time, s,
                  IF n > 1
                  THEN RatAdd(var_time[s],
                           RatMul(RatSub(t, mean_time[s]), RatSub(t, mean)))
                  ELSE var_time[s])
            /\ UNCHANGED lost
       ELSE /\ lost' = Set(lost, s, lost[s] + 1)
            /\ elapsed_time' = Set(elapsed_time, s, RatInt(0))
            /\ UNCHANGED <<received, min_time, max_time, last_mean_time,
                           mean_time, var_time>>
    /\ UNCHANGED <<op, args, ret, errText, stopped, size, sent>>
    /\ UNCHANGED <<targetVars, runVars, sharedVars>>

\* the condition under which ping waits after an echo (part_001 200)
WaitGuard(seq, cnt) == seq <= cnt \/ cnt = 0

\* the condition of the wait loop (part_001 201)
WaitCond(exp, stp) == ~ exp /\ ~ stp

\* A faulty variant of OnReceive: the hook is invoked only when the poll
\* left a positive byte count.
OnReceiveIfData(n, bytes) ==
    IF bytes # Uninit /\ bytes[1] > 0 THEN n + 1 ELSE n

\* part_001 198: onReceive (bytesReceived) is invoked once in every
\* iteration, whatever bytesReceived holds; n invocations become n + 1
OnReceive(n, bytes) == n + 1

\* part_001 198-200: onReceive (bytesReceived), then the wait loop is
\* entered (sendMillis is its start) or skipped
Hook(s) ==
    /\ pc[s] = "hook"
    /\ IF WaitGuard(seqno[s], count[s])
       THEN /\ pc' = Set(pc, s, "wait")
            /\ expired' = Set(expired, s, FALSE)
            /\ onWaitCalled' = Set(onWaitCalled, s, FALSE)
            /\ UNCHANGED seqno
       ELSE /\ pc' = Set(pc, s, "for")
            /\ seqno' = Set(seqno, s, NextSeqno(seqno[s]))
            /\ UNCHANGED <<expired, onWaitCalled>>
    /\ onReceiveCalls' = Set(onReceiveCalls, s,
                             OnReceive(onReceiveCalls[s], bytesReceived[s]))
    /\ UNCHANGED <<op, args, ret, errText, stopped>>
    /\ UNCHANGED <<targetVars, measuringVars, sharedVars>>
    /\ UNCHANGED <<count, sockfd, bytesReceived, pend>>

\* part_001 201-207: one evaluation of the wait loop's condition: onWait ()
\* and delay (10), or the end of the loop body and seqno++
Wait(s) ==
    /\ pc[s] = "wait"
    /\ IF WaitCond(expired[s], stopped[s])
       THEN /\ onWaitCalled' = Set(onWaitCalled, s, TRUE)
            /\ UNCHANGED <<pc, seqno>>
       ELSE /\ pc' = Set(pc, s, "for")
            /\ seqno' = Set(seqno, s, NextSeqno(seqno[s]))
            /\ UNCHANGED onWaitCalled
    /\ UNCHANGED onReceiveCalls
    /\ UNCHANGED <<op, args, ret, errText, stopped>>
    /\ UNCHANGED <<targetVars, measuringVars, sharedVars>>
    /\ UNCHANGED <<count, sockfd, bytesReceived, pend, expired>>

\* part_001 209: xSemaphoreTake before closesocket
CloseTake(s) ==
    /\ pc[s] = "close_wait"
    /\ Take(s)
    /\ pc' = Set(pc, s, "close")
    /\ UNCHANGED <<op, args, ret, errText, stopped>>
    /\ UNCHANGED <<targetVars, measuringVars, runVars>>
    /\ UNCHANGED <<pingReplies, openSockets, replySeen, replySeenInPoll>>

\* part_001 210-212: closesocket returns, xSemaphoreGive, return NULL
Close(s) ==
    /\ pc[s] = "close"
    /\ Give(s)
    /\ openSockets' = openSockets \ {OwnSlot(s)}
    /\ PingReturn(s, NULL)
    /\ UNCHANGED <<args, errText, stopped>>
    /\ UNCHANGED <<targetVars, measuringVars>>
    /\ UNCHANGED <<count, sockfd, pend, pingReplies, replySeen,
                   replySeenInPoll>>


(***************************************************************************)
(* Specifications                                                          *)
(***************************************************************************)

\* the steps of ping (count, ...) before the loop
Setup(s) ==
    \/ PingValidate(s)
    \/ SocketTake(s)
    \/ Socket(s)

\* the steps of the loop of ping and of the return after it, but the return
\* of recvfrom
Cycle(s, cap) ==
    \/ For(s, cap)
    \/ Send(s)
    \/ SendToTake(s)
    \/ SendTo(s)
    \/ Recv(s)
    \/ Tick(s)
    \/ Stats(s)
    \/ Hook(s)
    \/ Wait(s)
    \/ CloseTake(s)
    \/ Close(s)

\* the steps of __resolveTargetName__
Resolving(s) ==
    \/ Resolve(s)
    \/ GetAddrInfo(s)
    \/ FreeAddrInfoTake(s)
    \/ FreeAddrInfo(s)

\* Two sessions run ping (MaxSent) concurrently: session 1 was constructed
\* with a target that resolved to an IPv4 address, session 2 with one that
\* resolved to an IPv6 address.  A socket receives the replies to every
\* session's echoes.
Init ==
    /\ pc = [s \in Sessions |-> "idle"]
    /\ errText = [s \in Sessions |-> NULL]
    /\ isIPv6 = [s \in Sessions |-> s = 2]
    /\ pingTargetIp = [s \in Sessions |-> IF s = 2 THEN TextIPv6 ELSE TextIPv4]
    /\ FieldsInit(Sessions, {0}, {FALSE})
    /\ NoCallInit
    /\ SharedInit

\* the packets the sockets of the two sessions receive: the replies to the
\* echoes of both
DuoPackets == Replies(SocketIds, 1 .. MaxSent, {1})

Next ==
    \E s \in Sessions :
        \/ CallPing(s, ArgsDuo)
        \/ Setup(s)
        \/ Cycle(s, MaxSent)
        \/ RecvFrom(s, DuoPackets)
        \/ RecvWrite(s)

Spec == Init /\ [][Next]_vars

\* One session alone: every constructor, the overloads of ping with
\* arguments in and out of range, and stop () from another task.  The
\* socket receives replies that carry its own identifier, and strays.
Solo == {1}

InitSolo ==
    /\ pc = [s \in Sessions |-> "new"]
    /\ errText = [s \in Sessions |-> NULL]
    /\ isIPv6 = [s \in Sessions |-> FALSE]
    /\ pingTargetIp = [s \in Sessions |-> ""]
    /\ FieldsInit(Solo, {0, 1}, BOOLEAN)
    /\ NoCallInit
    /\ SharedInit

NextSolo ==
    \E s \in Solo :
        \/ Construct(s)
        \/ ConstructName(s)
        \/ Resolving(s)
        \/ CallPing(s, ArgsSolo)
        \/ CallPingName(s, ArgsSolo)
        \/ Stop(s)
        \/ Setup(s)
        \/ Cycle(s, MaxSent)
        \/ RecvFrom(s, Replies({sockfd[s]}, 0 .. MaxSent, 0 .. MaxElapsed)
                          \cup Strays)

SpecSolo == InitSolo /\ [][NextSolo]_vars

\* A run of ping (count, ...) of one IPv4 session near the end of the range
\* of its uint16_t loop counter.  The state is the one at the head of the
\* for loop after the echoes 1 .. WrapStart were sent and timed out with
\* no reply: seqno is WrapStart + 1, the socket is open and the slot still
\* expects WrapStart.  count is the last value below the range of the
\* counter, its largest value, or the first value beyond it.
WrapStart == SEQNO_MOD - 3

WrapCounts == {SEQNO_MOD - 2, SEQNO_MOD - 1, SEQNO_MOD}

InitWrap ==
    /\ pc = [s \in Sessions |-> IF s \in Solo THEN "for" ELSE "new"]
    /\ op = [s \in Sessions |-> IF s \in Solo THEN "ping" ELSE "none"]
    /\ args = [s \in Sessions |-> NoArgs]
    /\ ret = [s \in Sessions |-> NULL]
    /\ errText = [s \in Sessions |-> NULL]
    /\ isIPv6 = [s \in Sessions |-> FALSE]
    /\ pingTargetIp = [s \in Sessions |-> IF s \in Solo THEN TextIPv4 ELSE ""]
    /\ size = [s \in Sessions |-> IF s \in Solo THEN PING_DEFAULT_SIZE ELSE 0]
    /\ sent = [s \in Sessions |-> IF s \in Solo THEN WrapStart ELSE 0]
    /\ received = [s \in Sessions |-> 0]
    /\ lost = [s \in Sessions |-> IF s \in Solo THEN WrapStart ELSE 0]
    /\ stopped = [s \in Sessions |-> FALSE]
    /\ elapsed_time = [s \in Sessions |-> RatInt(0)]
    /\ min_time = [s \in Sessions |->
                     IF s \in Solo THEN RatInt(MIN_TIME_SENTINEL) ELSE RatInt(0)]
    /\ max_time = [s \in Sessions |-> RatInt(0)]
    /\ mean_time = [s \in Sessions |-> RatInt(0)]
    /\ var_time = [s \in Sessions |-> RatInt(0)]
    /\ last_mean_time = [s \in Sessions |-> RatInt(0)]
    /\ \E c \in WrapCounts :
          count = [s \in Sessions |-> IF s \in Solo THEN c ELSE 0]
    /\ seqno = [s \in Sessions |-> IF s \in Solo THEN WrapStart + 1 ELSE 0]
    /\ sockfd = [s \in Sessions |->
                   IF s \in Solo THEN LWIP_SOCKET_OFFSET ELSE -1]
    /\ bytesReceived = [s \in Sessions |->
                          IF s \in Solo THEN <<-1>> ELSE Uninit]
    /\ pend = [s \in Sessions |-> NoPend]
    /\ expired = [s \in Sessions |-> s \in Solo]
    /\ \E w \in BOOLEAN :
          onWaitCalled = [s \in Sessions |-> w /\ s \in Solo]
    /\ onReceiveCalls = [s \in Sessions |->
                           IF s \in Solo THEN WrapStart ELSE 0]
    /\ pingReplies = [i \in Slots |->
                        [seqno |-> IF i = 0 THEN WrapStart ELSE 0,
                         elapsed_time |-> 0]]
    /\ mutex = {}
    /\ openSockets = {0}
    /\ replySeen = [i \in Slots |-> FALSE]
    /\ replySeenInPoll = [i \in Slots |-> FALSE]

NextWrap ==
    \E s \in Solo :
        \/ Cycle(s, WrapStart + WrapLen)
        \/ RecvFrom(s, Replies({sockfd[s]}, {seqno[s]}, {1}))

SpecWrap == InitWrap /\ [][NextWrap]_vars


\* One session, constructed with a target that resolved, runs ping (n) for
\* n from 1 to MaxSent over a transport that delivers no packet: recvfrom
\* reports that there is nothing to read, or fails.  The task is scheduled
\* and time passes: every step of the run that stays possible is taken,
\* and a deadline that is awaited is reached.
ArgsSilent == {DefaultArgs(c) : c \in 1 .. MaxSent}

InitSilent ==
    /\ pc = [s \in Sessions |-> IF s \in Solo THEN "idle" ELSE "new"]
    /\ errText = [s \in Sessions |-> NULL]
    /\ \E v6 \in BOOLEAN :
        /\ isIPv6 = [s \in Sessions |-> v6 /\ s \in Solo]
        /\ pingTargetIp = [s \in Sessions |->
                             IF s \notin Solo THEN ""
                             ELSE IF v6 THEN TextIPv6 ELSE TextIPv4]
    /\ FieldsInit(Solo, {0, 1}, BOOLEAN)
    /\ NoCallInit
    /\ SharedInit

NextSilent ==
    \E s \in Solo :
        \/ CallPing(s, ArgsSilent)
        \/ Setup(s)
        \/ Cycle(s, MaxSent)
        \/ RecvFrom(s, {})

FairSilent ==
    \A s \in Solo :
        /\ WF_vars(Tick(s))
        /\ WF_vars(CallPing(s, ArgsSilent) \/ Setup(s) \/ Cycle(s, MaxSent)
                   \/ RecvFrom(s, {}))

SpecSilent == InitSilent /\ [][NextSilent]_vars /\ FairSilent


\* Two tasks each construct a session with a host name, which resolves it,
\* and call ping (1) on it over a transport that delivers no packet: the
\* resolver calls and the socket calls of the two sessions interleave.
ArgsCalls == {DefaultArgs(1)}

InitCalls ==
    /\ pc = [s \in Sessions |-> "new"]
    /\ errText = [s \in Sessions |-> NULL]
    /\ isIPv6 = [s \in Sessions |-> FALSE]
    /\ pingTargetIp = [s \in Sessions |-> ""]
    /\ FieldsInit(Sessions, {0}, {FALSE})
    /\ NoCallInit
    /\ SharedInit

NextCalls ==
    \E s \in Sessions :
        \/ ConstructName(s)
        \/ Resolving(s)
        \/ CallPing(s, ArgsCalls)
        \/ Setup(s)
        \/ Cycle(s, 1)
        \/ RecvFrom(s, {})

SpecCalls == InitCalls /\ [][NextCalls]_vars

\* The scheduling of the tasks of SpecCalls.  A network call returns: the
\* sockets are non-blocking and the resolver gives up after its timeouts.
\* A task blocked in xSemaphoreTake (..., portMAX_DELAY) is queued on the
\* mutex and is given it when its turn comes, however often the other
\* tasks take the mutex in the meantime.
FairCalls ==
    \A s \in Sessions :
        /\ WF_vars(GetAddrInfo(s) \/ FreeAddrInfo(s) \/ Socket(s)
                   \/ SendTo(s) \/ RecvFrom(s, {}) \/ Close(s))
        /\ SF_vars(FreeAddrInfoTake(s))
        /\ SF_vars(SocketTake(s))
        /\ SF_vars(SendToTake(s))
        /\ SF_vars(CloseTake(s))

SpecCallsFair == SpecCalls /\ FairCalls


\* Two IPv4 sessions run ping (MaxSent) one after the other: session 2
\* calls ping once the run of session 1 has returned, and the socket
\* session 1 closed may be the one session 2 is given.  The target of
\* session 2 never answers: the only packets that arrive, during the run
\* of session 1 and after it, are echo replies to the echoes session 1
\* has sent, which carry the number of its socket and one of its sequence
\* numbers.
InitReuse ==
    /\ pc = [s \in Sessions |-> "idle"]
    /\ errText = [s \in Sessions |-> NULL]
    /\ isIPv6 = [s \in Sessions |-> FALSE]
    /\ pingTargetIp = [s \in Sessions |-> TextIPv4]
    /\ FieldsInit(Sessions, {0}, {FALSE})
    /\ NoCallInit
    /\ SharedInit

RepliesToFirst ==
    {p \in Replies({sockfd[1]}, 1 .. sent[1], {1}) : p.type = ICMP_ER}

\* a task calls ping (MaxSent) on its session; the task of a later
\* session does so after ping has returned on session 1
CallPingInTurn(s) ==
    /\ s # 1 => pc[1] = "done"
    /\ CallPing(s, ArgsDuo)

NextReuse ==
    \E s \in Sessions :
        \/ CallPingInTurn(s)
        \/ Setup(s)
        \/ Cycle(s, MaxSent)
        \/ RecvFrom(s, RepliesToFirst)
        \/ RecvWrite(s)

SpecReuse == InitReuse /\ [][NextReuse]_vars


\* One session, constructed with a target that resolved and never stopped
\* before, runs ping (0) over a transport that delivers no packet, and
\* another task calls stop () at some point between the entry of ping and
\* its return.  The task of the run is scheduled and time passes; nothing
\* obliges the other task to call stop ().
ArgsEndless == {DefaultArgs(0)}

InitStop ==
    /\ pc = [s \in Sessions |-> IF s \in Solo THEN "idle" ELSE "new"]
    /\ errText = [s \in Sessions |-> NULL]
    /\ \E v6 \in BOOLEAN :
        /\ isIPv6 = [s \in Sessions |-> v6 /\ s \in Solo]
        /\ pingTargetIp = [s \in Sessions |->
                             IF s \notin Solo THEN ""
                             ELSE IF v6 THEN TextIPv6 ELSE TextIPv4]
    /\ FieldsInit(Solo, {0, 1}, {FALSE})
    /\ NoCallInit
    /\ SharedInit

\* stop () called while ping is executing
StopInRun(s) ==
    /\ pc[s] \notin {"idle", "done"}
    /\ Stop(s)

NextStop ==
    \E s \in Solo :
        \/ CallPing(s, ArgsEndless)
        \/ StopInRun(s)
        \/ Setup(s)
        \/ Cycle(s, MaxSent)
        \/ RecvFrom(s, {})

FairStop ==
    \A s \in Solo :
        /\ WF_vars(Tick(s))
        /\ WF_vars(CallPing(s, ArgsEndless) \/ Setup(s) \/ Cycle(s, MaxSent)
                   \/ RecvFrom(s, {}))

SpecStop == InitStop /\ [][NextStop]_vars /\ FairStop


(***************************************************************************)
(* Properties                                                              *)
(***************************************************************************)

\* every slot but the one the identifier id designates is left as it is
OnlySlotOf(id) ==
    \A k \in Slots \ {SlotOf(id)} : pingReplies'[k] = pingReplies[k]

\* C1: a reply that carries the identifier i, dequeued by any session j,
\* changes at most slot i, at once or by the write that follows the
\* comparison, and never the slot of j when j's socket is not i; and a
\* session's received counter increases only in its statistics update when
\* its own slot holds an elapsed time, so never because of a reply that
\* carries the identifier of another session's socket.
C1_ReplyChangesOnlyItsSlot ==
    [][\A j \in Sessions :
          /\ pc[j] = "recvfrom" =>
                \A p \in DuoPackets :
                    RecvPacket(j, p) =>
                        /\ OnlySlotOf(p.id)
                        /\ pend'[j] # NoPend => pend'[j].id = p.id
          /\ RecvWrite(j) => OnlySlotOf(pend[j].id)
          /\ received'[j] # received[j] =>
                /\ pc[j] = "stats"
                /\ pingReplies[OwnSlot(j)].elapsed_time # 0
                /\ received'[j] = received[j] + 1
                /\ pingReplies' = pingReplies]_vars

\* Session j has dequeued a reply that carries the identifier of the socket
\* of session i, which is polling for its own reply, and is about to write
\* the slot of i.
C1_Witness ==
    \E i, j \in Sessions :
        /\ i # j
        /\ pc[j] = "recv_write"
        /\ pend[j].id = sockfd[i]
        /\ sockfd[i] # sockfd[j]
        /\ pc[i] \in {"recv", "recvfrom"}
        /\ SlotOf(sockfd[i]) \in openSockets

\* C2: a session counts the sequence number it sent as received only if a
\* reply that carries its identifier and that sequence number was dequeued
\* after the session reset its slot for it: whenever the statistics update
\* finds an elapsed time in the session's slot, such a reply was seen since
\* the reset.
C2_ReceivedOnlyAfterOwnReply ==
    \A s \in Sessions :
        (pc[s] = "stats" /\ pingReplies[OwnSlot(s)].elapsed_time # 0)
            => replySeen[OwnSlot(s)]

\* C3: a run of ping (count, ...) that created a socket closes it before it
\* returns, on every exit path: when ping has returned, the socket the run
\* used is not open.
C3_SocketClosedAtReturn ==
    \A s \in Solo :
        (pc[s] = "done" /\ sockfd[s] # -1)
            => SlotOf(sockfd[s]) \notin openSockets

\* C4: when stop () was called while the session polls for a reply, the
\* stop takes effect within one poll iteration: a session whose stop flag
\* is set when it is at the head of the poll loop, with no elapsed time in
\* its slot, does not call recvfrom again.
C4_StopEndsPoll ==
    [][\A s \in Solo :
          (pc[s] = "recv" /\ stopped[s]
           /\ pingReplies[OwnSlot(s)].elapsed_time = 0)
              => pc'[s] # "recvfrom"]_vars

\* the positions of a run from the receive hook of an echo to the return
\* of ping that do not send
AfterEcho == {"hook", "wait", "for", "close_wait", "close"}

\* C5: with count = 0, once stop () was called during the receive hook of
\* echo k or during the wait that follows it, no further echo is sent (sent
\* stays k and the run goes from the hook and the wait to the loop
\* condition, to closesocket and to the return only), the wait loop calls
\* onWait no more, and ping returns NULL with the socket closed.
C5_StopAfterEcho ==
    [][\A s \in Solo :
          (count[s] = 0 /\ stopped[s] /\ pc[s] \in AfterEcho) =>
              /\ sent'[s] = sent[s]
              /\ pc'[s] \in AfterEcho \cup {"done"}
              /\ pc[s] = "wait" =>
                    /\ pc'[s] \in {"wait", "for"}
                    /\ onWaitCalled'[s] = onWaitCalled[s] \/ pc'[s] = "for"
                    /\ pc'[s] = "wait" => expired'[s] # expired[s]
              /\ pc[s] = "for" => pc'[s] = "close_wait"
              /\ pc[s] = "close_wait" => pc'[s] = "close"
              /\ pc[s] = "close" =>
                    /\ pc'[s] = "done"
                    /\ ret'[s] = NULL
                    /\ SlotOf(sockfd[s]) \notin openSockets']_vars

\* A run with count = 0 that was stopped during the wait after an echo (the
\* wait had called onWait) has left the loop and is closing its socket.
C5_Witness ==
    \E s \in Solo :
        /\ pc[s] = "close"
        /\ count[s] = 0
        /\ stopped[s]
        /\ onWaitCalled[s]
        /\ sent[s] >= 1
        /\ sent[s] = received[s] + lost[s]

\* C6: for every count >= 1 a run sends no more than count echoes, also
\* when count is at or beyond the largest value of the 16-bit sequence
\* counter.
C6_SentAtMostCount ==
    \A s \in Solo : (op[s] = "ping" /\ count[s] >= 1) => sent[s] <= count[s]

\* C7: the poll for a reply ends as soon as the timeout is reached, for
\* every receive result: when recvfrom returns after the deadline of the
\* poll, the session does not go on polling.
C7_PollEndsAtTimeout ==
    [][\A s \in Solo :
          (pc[s] = "recvfrom" /\ expired[s])
              => pc'[s] \notin {"recv", "recv_write"}]_vars

\* the positions of a run between a send that succeeded and the update of
\* the statistics
InPoll == {"recv", "recvfrom", "recv_write", "stats"}

\* the positions of the loop of ping and of the closing of the socket
InRun == {"for", "send", "sendto_wait", "sendto", "hook", "wait",
          "close_wait", "close"} \cup InPoll

\* what ping returns once validation has passed
RunResults == {NULL, "strerror (errno)", "out of memory", "couldn't sendto"}

\* C8: when ping returns after validation has passed, sent = received +
\* lost and received <= sent; during a run received + lost <= sent <=
\* received + lost + 1, and the echo that is not yet counted is the one
\* the session is polling for.
C8_SentIsReceivedPlusLost ==
    \A s \in Solo :
        /\ (pc[s] = "done" /\ ret[s] \in RunResults)
              => (sent[s] = received[s] + lost[s] /\ received[s] <= sent[s])
        /\ pc[s] \in InRun =>
              /\ received[s] + lost[s] <= sent[s]
              /\ sent[s] <= received[s] + lost[s] + 1
              /\ sent[s] = received[s] + lost[s] + 1 <=> pc[s] \in InPoll

\* A send failed after an echo had been sent and counted: ping has returned
\* "couldn't sendto".
C8_Witness ==
    \E s \in Solo :
        /\ pc[s] = "done"
        /\ ret[s] = "couldn't sendto"
        /\ sent[s] >= 1
        /\ received[s] >= 1

\* the ranges of the arguments of ping, as the specification gives them
InRange(a) ==
    /\ a.count >= 0
    /\ a.interval >= 1 /\ a.interval <= 3600
    /\ a.size >= 4 /\ a.size <= 256
    /\ a.timeout >= 1 /\ a.timeout <= 30

\* C9: ping (count, interval, size, timeout) with an argument out of range,
\* or while the network is not connected, returns an error and leaves the
\* sockets, the correlation table, sent, received, lost, min, max, mean and
\* the variance as they were; with every argument in range it returns
\* "not connected" or passes validation.
C9_ValidationTouchesNothing ==
    [][\A s \in Solo :
          (pc[s] = "ping" /\ pc'[s] # "ping") =>
              /\ ~ InRange(args[s]) => pc'[s] = "done"
              /\ InRange(args[s]) =>
                    \/ pc'[s] = "socket_wait"
                    \/ pc'[s] = "done" /\ ret'[s] = "not connected"
              /\ pc'[s] = "done" =>
                    /\ ret'[s] \in {"not connected", "invalid value"}
                    /\ UNCHANGED <<openSockets, pingReplies, sockfd>>
                    /\ UNCHANGED <<sent, received, lost, min_time,
                                   max_time, mean_time, var_time>>]_vars

\* A call with an argument out of range has returned "invalid value" on a
\* session whose counters were not zero, and they are what they were.
C9_Witness ==
    \E s \in Solo :
        /\ pc[s] = "done"
        /\ ret[s] = "invalid value"
        /\ sent[s] = 1
        /\ openSockets = {}

\* C10: ping (target, count, ...) with an argument out of range makes no
\* resolver call and takes no mutex before it returns the error.
C10_ValidationBeforeResolver ==
    \A s \in Solo :
        (op[s] = "pingName" /\ ~ InRange(args[s]))
            => /\ pc[s] \notin {"getaddrinfo", "freeaddrinfo_wait",
                                "freeaddrinfo"}
               /\ s \notin mutex

\* C11: ping (count, ...) on a session that has no bound target, because
\* it was default-constructed or the resolution of its target failed,
\* returns an error without creating a socket: while the target text of a
\* session is empty, no socket is open for it.
C11_NoTargetNoSocket ==
    \A s \in Solo : pingTargetIp[s] = "" => openSockets = {}

\* C12: after a call of ping, errText () is what the call returned.
C12_ErrTextIsResult ==
    \A s \in Solo : pc[s] = "done" => errText[s] = ret[s]

\* what ping returns when __ping_send__ failed
SendErrors == {"out of memory", "couldn't sendto"}

\* C13: a failure of __ping_send__ for the sequence number N makes ping
\* return the error at once: the step that ends the send returns one of the
\* send errors, which is also errText (), and leaves sent (N - 1, the
\* echoes sent before), received, lost and the timing statistics as they
\* were; a send that does not fail counts the echo and enters the poll.
C13_SendFailureAborts ==
    [][\A s \in Solo :
          /\ (pc[s] \in {"send", "sendto"} /\ pc'[s] = "done") =>
                /\ ret'[s] \in SendErrors
                /\ errText'[s] = ret'[s]
                /\ sent[s] = seqno[s] - 1
                /\ UNCHANGED <<sent, received, lost, elapsed_time,
                               min_time, max_time, mean_time, var_time>>
          /\ (pc[s] = "send" /\ pc'[s] # "send") =>
                pc'[s] \in {"sendto_wait", "sendto", "done"}
          /\ (pc[s] = "sendto" /\ pc'[s] \notin {"sendto", "done"}) =>
                /\ pc'[s] = "recv"
                /\ sent'[s] = sent[s] + 1
                /\ errText'[s] = NULL
          /\ (ret'[s] # ret[s] /\ ret'[s] \in SendErrors) =>
                pc[s] \in {"send", "sendto"}]_vars

\* The packet buffer for the second echo could not be allocated: ping has
\* returned "out of memory" with the first echo counted.
C13_Witness ==
    \E s \in Solo :
        /\ pc[s] = "done"
        /\ ret[s] = "out of memory"
        /\ sent[s] = 1
        /\ received[s] + lost[s] = 1

\* the positions of a run at which the echo seqno is still to be sent
BeforeSend == {"for", "send", "sendto_wait", "sendto"}

\* C14: over a transport that delivers no reply, ping (n) with n >= 1
\* returns; when it returns NULL, sent = n, received = 0 and lost = n; and
\* during the run every sequence number is sent once, in order: the echoes
\* sent are those below seqno before a send and those up to seqno after
\* it, the slot expects seqno during the poll, and each poll ends in a
\* loss.
C14_SilentTransportAllLost ==
    /\ [](\A s \in Solo :
            /\ pc[s] \in InRun => received[s] = 0
            /\ pc[s] \in BeforeSend \cup {"close_wait", "close"} =>
                  (sent[s] = seqno[s] - 1 /\ lost[s] = sent[s])
            /\ pc[s] \in InPoll =>
                  /\ sent[s] = seqno[s]
                  /\ lost[s] = sent[s] - 1
                  /\ pingReplies[OwnSlot(s)] =
                        [seqno |-> seqno[s], elapsed_time |-> 0]
            /\ pc[s] \in {"hook", "wait"} =>
                  (sent[s] = seqno[s] /\ lost[s] = sent[s])
            /\ (pc[s] = "done" /\ ret[s] = NULL) =>
                  (sent[s] = count[s] /\ received[s] = 0
                   /\ lost[s] = count[s]))
    /\ <>(\A s \in Solo : pc[s] = "done")

\* ping (MaxSent) has returned NULL over the silent transport with every
\* echo lost.
C14_Witness ==
    \E s \in Solo :
        /\ pc[s] = "done"
        /\ ret[s] = NULL
        /\ count[s] = MaxSent
        /\ sent[s] = MaxSent
        /\ lost[s] = MaxSent
        /\ received[s] = 0

\* the positions of a run before its first echo is sent
BeforeFirstEcho(s) ==
    \/ pc[s] \in {"socket_wait", "socket"}
    \/ pc[s] \in BeforeSend /\ seqno[s] = 1

\* the statistics as "initialize measuring variables" leaves them
StatisticsReset(s) ==
    /\ min_time[s] = RatInt(MIN_TIME_SENTINEL)
    /\ max_time[s] = RatInt(0)
    /\ mean_time[s] = RatInt(0)
    /\ var_time[s] = RatInt(0)

\* C15: the step of ping that passes validation sets sent, received and
\* lost to 0, min to its sentinel, max, mean and the variance accumulator
\* to 0 and the stop flag to false, whatever the earlier run left; they
\* are still so (the stop flag apart, which stop () may set again) until
\* the first echo is sent; and of what the run then counts nothing comes
\* from before it: sent is the number of echoes of this run, received and
\* lost are its polls that ended, and the statistics stay reset as long as
\* the run has received no reply.
C15_RunStartsFromReset ==
    /\ [][\A s \in Solo :
            (pc[s] = "ping" /\ pc'[s] \notin {"ping", "done"}) =>
                /\ pc'[s] = "socket_wait"
                /\ sent'[s] = 0 /\ received'[s] = 0 /\ lost'[s] = 0
                /\ StatisticsReset(s)'
                /\ stopped'[s] = FALSE]_vars
    /\ [](\A s \in Solo :
            /\ BeforeFirstEcho(s) =>
                  /\ sent[s] = 0 /\ received[s] = 0 /\ lost[s] = 0
                  /\ StatisticsReset(s)
            /\ pc[s] \in InRun =>
                  /\ sent[s] \in {seqno[s] - 1, seqno[s]}
                  /\ received[s] + lost[s] <= sent[s]
                  /\ received[s] = 0 => StatisticsReset(s))

\* A run has passed validation on a session whose fields held other values
\* (the elapsed time, which is not reset, still shows them), and has lost
\* its first echo with the counters at 1, 0, 1.
C15_Witness ==
    \E s \in Solo :
        /\ pc[s] = "hook"
        /\ elapsed_time[s] = RatInt(0)
        /\ last_mean_time[s] = RatInt(1)
        /\ sent[s] = 1 /\ received[s] = 0 /\ lost[s] = 1
        /\ StatisticsReset(s)

\* the positions at which a task is inside getaddrinfo, freeaddrinfo,
\* socket with fcntl (and close when fcntl failed), or closesocket
LwIpCalls == {"getaddrinfo", "freeaddrinfo", "socket", "close"}

\* C16: a task that is inside a resolver call or inside a socket creation,
\* mode-set or teardown call holds the LwIP mutex, the mutex has at most
\* one holder, and no two tasks are inside such calls at the same time.
C16_CallsUnderMutex ==
    /\ \A s \in Sessions : pc[s] \in LwIpCalls => mutex = {s}
    /\ \A s, r \in Sessions :
          (pc[s] \in LwIpCalls /\ pc[r] \in LwIpCalls) => s = r
    /\ Cardinality(mutex) <= 1

\* One task is inside closesocket, holding the mutex, while the other
\* waits for the mutex to call freeaddrinfo.
C16_Witness ==
    \E s, r \in Sessions :
        /\ pc[s] = "close"
        /\ mutex = {s}
        /\ pc[r] = "freeaddrinfo_wait"

\* C17: when another session dequeued, while session b was polling for the
\* sequence number of its slot, a reply that carries b's identifier and
\* that sequence number, b counts the sequence as received: b does not
\* reach the receive hook with the sequence counted as lost.
C17_ForeignDequeueIsReceived ==
    \A b \in Sessions :
        (pc[b] = "hook" /\ replySeenInPoll[OwnSlot(b)])
            => elapsed_time[b] # RatInt(0)

\* C18 as stated: in every state of a run the number of onReceive
\* invocations of the run equals received + lost.
C18_OnReceivePerOutcome ==
    \A s \in Solo :
        pc[s] \in InRun => onReceiveCalls[s] = received[s] + lost[s]

\* C18, amended: onReceive is invoked once per sent echo, after that
\* echo's statistics update and before any wait tick for it.  The number
\* of invocations of the run equals received + lost in every state of the
\* run but the one between the statistics update and the invocation, where
\* it is one less; it is sent - 1 from the send to the invocation and sent
\* during the wait; and when ping returns after validation has passed it
\* equals sent.
C18_OnReceiveAfterOutcome ==
    \A s \in Solo :
        /\ pc[s] \in InRun \ {"hook"} =>
              onReceiveCalls[s] = received[s] + lost[s]
        /\ pc[s] = "hook" =>
              onReceiveCalls[s] + 1 = received[s] + lost[s]
        /\ pc[s] \in InPoll \cup {"hook"} =>
              onReceiveCalls[s] = sent[s] - 1
        /\ pc[s] = "wait" => onReceiveCalls[s] = sent[s]
        /\ (pc[s] = "done" /\ ret[s] \in RunResults) =>
              /\ onReceiveCalls[s] = sent[s]
              /\ onReceiveCalls[s] = received[s] + lost[s]

\* The statistics of the second echo are updated and its onReceive is
\* still to come.
C18_Witness ==
    \E s \in Solo :
        /\ pc[s] = "hook"
        /\ sent[s] = 2
        /\ received[s] + lost[s] = 2
        /\ onReceiveCalls[s] = 1

\* C19: when onReceive is about to be invoked, the byte count it is given
\* is 0 if the echo was counted as lost, and a payload byte count that
\* __ping_recv__ wrote, hence a positive one, if it was counted as
\* received.
C19_OnReceiveByteCount ==
    \A s \in Solo :
        pc[s] = "hook" =>
            IF elapsed_time[s] = RatInt(0)
            THEN bytesReceived[s] = <<0>>
            ELSE bytesReceived[s] # Uninit /\ bytesReceived[s][1] > 0

\* C20: onWait ticks occur only between two consecutive sends: onWait has
\* been invoked in the wait loop only if the sequence number just handled
\* is below count, or count is 0; after the final sequence there is none.
C20_WaitOnlyBetweenSends ==
    \A s \in Solo :
        (pc[s] = "wait" /\ onWaitCalled[s])
            => (count[s] = 0 \/ seqno[s] < count[s])

\* the Echo Reply type of an address family
OwnReplyType(v6) == IF v6 THEN ICMP6_ECHO_REPLY ELSE ICMP_ER

\* the packets recvfrom can deliver to the single session s
SoloPackets(s) ==
    Replies({sockfd[s]}, 0 .. MaxSent, 0 .. MaxElapsed) \cup Strays

\* C21: a packet whose ICMP type is not the Echo Reply type of the polling
\* session's own address family changes no slot, prepares no write of a
\* slot, and the session goes on polling.
C21_OnlyOwnFamilyReply ==
    [][\A s \in Solo :
          pc[s] = "recvfrom" =>
              \A p \in SoloPackets(s) :
                  (RecvPacket(s, p) /\ p.type # OwnReplyType(isIPv6[s])) =>
                      /\ pingReplies' = pingReplies
                      /\ pend'[s] = NoPend
                      /\ pc'[s] = "recv"]_vars

\* C22: when a session dequeues a reply whose identifier designates a slot
\* and whose sequence number differs from the one the slot expects at the
\* comparison, no slot changes, no write of a slot is prepared, the
\* session goes on polling, and the position of every other session is
\* what it was: the poll of the slot's owner is not ended by the packet.
C22_LateReplyIgnored ==
    [][\A j \in Sessions :
          pc[j] = "recvfrom" =>
              \A p \in DuoPackets :
                  (/\ RecvPacket(j, p)
                   /\ Accepted(p.id, p.type)
                   /\ pingReplies[SlotOf(p.id)].seqno # p.seqno) =>
                      /\ pingReplies' = pingReplies
                      /\ pend'[j] = NoPend
                      /\ pc'[j] = "recv"
                      /\ \A b \in Sessions \ {j} : pc'[b] = pc[b]]_vars

\* Session j lost its first echo and, polling for the second while the
\* other session has not started, has dequeued a reply and ignored it: no
\* slot holds an elapsed time and j is back at the head of its poll.
C22_Witness ==
    \E j \in Sessions :
        /\ pc[j] = "recv"
        /\ seqno[j] = 2
        /\ lost[j] = 1
        /\ received[j] = 0
        /\ bytesReceived[j] # Uninit
        /\ bytesReceived[j][1] > 0
        /\ pend[j] = NoPend
        /\ pingReplies[OwnSlot(j)] = [seqno |-> 2, elapsed_time |-> 0]
        /\ \A b \in Sessions \ {j} : pc[b] = "idle"
        /\ \A k \in Slots : pingReplies[k].elapsed_time = 0

\* the positions at which a task is inside a call that the code makes
\* between xSemaphoreTake and xSemaphoreGive
CallsInMutex == LwIpCalls \cup {"sendto", "recvfrom"}

\* the positions at which a task is blocked in xSemaphoreTake
TakeWaits == {"freeaddrinfo_wait", "socket_wait", "sendto_wait",
              "close_wait"}

Statistics(s) ==
    <<min_time[s], max_time[s], mean_time[s], var_time[s]>>

\* C24: the statistics update of a cycle is one step that either counts a
\* loss, and then changes only lost (by 1) and the last elapsed time (to
\* 0), or counts a reply, and then increments received and sets the last
\* elapsed time and the minimum, maximum and mean together: the minimum
\* does not grow, the maximum does not shrink, the elapsed time lies
\* between them.  No other step of a run changes received or the
\* statistics.  So a run that ends with received = 0 has min at its
\* sentinel and max, mean and the variance accumulator at 0.
C24_LossChangesOnlyLost ==
    /\ [][\A s \in Solo :
            /\ (pc[s] = "stats" /\ pc'[s] # "stats") =>
                  /\ pc'[s] = "hook"
                  /\ \/ /\ lost'[s] = lost[s] + 1
                        /\ elapsed_time'[s] = RatInt(0)
                        /\ received'[s] = received[s]
                        /\ Statistics(s)' = Statistics(s)
                        /\ last_mean_time'[s] = last_mean_time[s]
                     \/ /\ received'[s] = received[s] + 1
                        /\ lost'[s] = lost[s]
                        /\ elapsed_time'[s] # RatInt(0)
                        /\ ~ RatLess(min_time[s], min_time'[s])
                        /\ ~ RatLess(max_time'[s], max_time[s])
                        /\ ~ RatLess(elapsed_time'[s], min_time'[s])
                        /\ ~ RatLess(max_time'[s], elapsed_time'[s])
                        /\ last_mean_time'[s] = mean_time[s]
            /\ (pc[s] \in InRun \ {"stats"}) =>
                  /\ received'[s] = received[s]
                  /\ lost'[s] = lost[s]
                  /\ Statistics(s)' = Statistics(s)]_vars
    /\ [](\A s \in Solo :
            (pc[s] = "done" /\ ret[s] \in RunResults /\ received[s] = 0)
                => StatisticsReset(s))

\* A run of two echoes has returned with the first echo received and the
\* second lost: the loss left the statistics of the first in place.
C24_Witness ==
    \E s \in Solo :
        /\ pc[s] = "done"
        /\ ret[s] = NULL
        /\ received[s] = 1
        /\ lost[s] = 1
        /\ elapsed_time[s] = RatInt(0)
        /\ min_time[s] = max_time[s]
        /\ min_time[s] = mean_time[s]
        /\ min_time[s] # RatInt(0)

\* C25: a session does not count an echo as received because of a reply
\* to a packet it did not send: when every packet that arrives is a reply
\* to an echo of session 1, whose run is over, no later session counts a
\* reply, whichever socket it was given.
C25_NoReplyAcrossReuse ==
    \A b \in Sessions \ {1} : received[b] = 0

\* C26: no stop request is lost: once stop () has been called during a
\* run with count = 0, at whatever point after the entry of ping, the
\* request stays in force until ping returns, and ping eventually returns.
C26_StopIsNotLost ==
    /\ [][\A s \in Solo :
            (stopped[s] /\ pc[s] \notin {"idle", "done"}) =>
                (stopped'[s] \/ pc'[s] = "done")]_vars
    /\ \A s \in Solo : (stopped[s] /\ pc[s] # "idle") ~> (pc[s] = "done")

\* identifiers from below the socket numbers to above them
NearIds ==
    (LWIP_SOCKET_OFFSET - 1) .. (LWIP_SOCKET_OFFSET + MEMP_NUM_NETCONN)

\* C27: every index into the table lies in 0 .. MEMP_NUM_NETCONN - 1.  The
\* slot of a session, its socket number minus LWIP_SOCKET_OFFSET, does;
\* the slot of every identifier that passes the check of a received
\* packet does; and a packet whose identifier lies outside the socket
\* numbers changes no slot, prepares no write, and the poll goes on.
C27_TableIndexInRange ==
    /\ [](\A s \in Solo : pc[s] \in InRun => OwnSlot(s) \in Slots)
    /\ [](\A id \in NearIds, ty \in {ICMP_ER, ICMP6_ECHO_REPLY} :
            Accepted(id, ty) => SlotOf(id) \in Slots)
    /\ [][\A s \in Solo :
            pc[s] = "recvfrom" =>
                \A p \in SoloPackets(s) :
                    (/\ RecvPacket(s, p)
                     /\ p.len >= MinBytes(isIPv6[s])
                     /\ p.id \notin SocketIds) =>
                        /\ pingReplies' = pingReplies
                        /\ pend'[s] = NoPend
                        /\ pc'[s] = "recv"]_vars

\* A session whose socket is the last one, so that its slot is the last
\* of the table, has dequeued a packet in its first poll and gone back to
\* the head of the poll with its slot as it was.
C27_Witness ==
    \E s \in Solo :
        /\ pc[s] = "recv"
        /\ sockfd[s] = LWIP_SOCKET_OFFSET + MEMP_NUM_NETCONN - 1
        /\ seqno[s] = 1
        /\ bytesReceived[s] # Uninit
        /\ bytesReceived[s][1] > 0
        /\ pingReplies[OwnSlot(s)] = [seqno |-> 1, elapsed_time |-> 0]

\* the positions at which a task is inside sendto or recvfrom
TransferCalls == {"sendto", "recvfrom"}

\* C28: a task that is inside sendto or recvfrom holds the LwIP mutex,
\* whatever the address family of its session, and no two tasks are
\* inside sendto or recvfrom at the same time.
C28_TransfersUnderMutex ==
    /\ \A s \in Sessions : pc[s] \in TransferCalls => mutex = {s}
    /\ \A s, r \in Sessions :
          (pc[s] \in TransferCalls /\ pc[r] \in TransferCalls) => s = r

====
